---- MODULE Spec2Model ----
(***************************************************************************)
(* Synthetic-data core of my-agent: the schema model and its validators    *)
(* (app/synth_data/models.py), the foreign-key resolver and the script     *)
(* emitter (app/synth_data/codegen.py), and the emitted script: its module *)
(* body, which binds SCHEMA, and its generate() procedure.                 *)
(***************************************************************************)
EXTENDS Integers, Sequences, FiniteSets, TLC

\* ------------------------------------------------------------------ bounds
\* tables of a schema document of the resolver family
MaxTables == 3
\* foreign-key columns of a schema document of the resolver family
MaxFks == 3
\* largest rows_per_table handed to the emitter
MaxRows == 3

\* ------------------------------------------------------------- data model
NoFk == <<>>

Fk(rt, rc) == << [ref_table |-> rt, ref_column |-> rc] >>

Column(n, ty, pk, fk, nl, un) ==
    [name |-> n, type |-> ty, primary_key |-> pk, foreign_key |-> fk,
     nullable |-> nl, unique |-> un]

Table(n, cols) == [name |-> n, columns |-> cols]

Schema(tbls) == [tables |-> tbls]

\* ---------------------------------------------------------------- helpers
Range(s) == {s[i] : i \in 1..Len(s)}

NoDup(s) == \A i, j \in 1..Len(s) : i # j => s[i] # s[j]

IndexOf(s, x) == CHOOSE i \in 1..Len(s) : s[i] = x

RECURSIVE Concat(_)
Concat(ss) == IF ss = <<>> THEN <<>> ELSE Head(ss) \o Concat(Tail(ss))

\* ------------------------------------------------------------- validators
Err(rule, loc) == [rule |-> rule, loc |-> loc]

\* ColumnErrors without the nullable check
ColumnErrors_NoNullableCheck(c) ==
    IF c.primary_key /\ c.foreign_key # NoFk THEN << Err("pk_and_fk", c.name) >>
    ELSE <<>>

\* Column._pk_fk_are_exclusive: raises at the first violated rule
ColumnErrors(c) ==
    IF c.primary_key /\ c.foreign_key # NoFk THEN << Err("pk_and_fk", c.name) >>
    ELSE IF c.primary_key /\ c.nullable THEN << Err("pk_nullable", c.name) >>
    ELSE <<>>

primary_keys(t) == SelectSeq(t.columns, LAMBDA c : c.primary_key)

foreign_keys(t) == SelectSeq(t.columns, LAMBDA c : c.foreign_key # NoFk)

\* Table._validate_table: runs once every column validated, raises at the
\* first violated rule
TableErrors(t) ==
    LET inner == Concat([i \in 1..Len(t.columns) |-> ColumnErrors(t.columns[i])])
        names == [i \in 1..Len(t.columns) |-> t.columns[i].name]
    IN  IF inner # <<>> THEN inner
        ELSE IF t.columns = <<>> THEN << Err("no_columns", t.name) >>
        ELSE IF Len(names) # Cardinality(Range(names))
             THEN << Err("duplicate_columns", t.name) >>
        ELSE IF ~ \E i \in 1..Len(t.columns) : t.columns[i].primary_key
             THEN << Err("no_primary_key", t.name) >>
        ELSE <<>>

\* FkErrors without the lookup of the referenced column
FkErrors_TableOnly(d) ==
    LET tnames == {d.tables[i].name : i \in 1..Len(d.tables)}
        fks == Concat([i \in 1..Len(d.tables) |->
                 LET cs == foreign_keys(d.tables[i])
                 IN  [j \in 1..Len(cs) |-> cs[j].foreign_key[1]]])
        bad == SelectSeq(fks, LAMBDA fk : fk.ref_table \notin tnames)
    IN  IF bad = <<>> THEN <<>>
        ELSE << Err("unknown_fk_table", bad[1].ref_table) >>

\* the foreign-key loop of Schema._validate_schema: the first foreign key, in
\* table order then column order, that does not resolve
FkErrors(d) ==
    LET tnames == {d.tables[i].name : i \in 1..Len(d.tables)}
        table_by_name(n) ==
            d.tables[CHOOSE i \in 1..Len(d.tables) :
                        /\ d.tables[i].name = n
                        /\ \A j \in (i+1)..Len(d.tables) : d.tables[j].name # n]
        fks == Concat([i \in 1..Len(d.tables) |->
                 LET cs == foreign_keys(d.tables[i])
                 IN  [j \in 1..Len(cs) |-> cs[j].foreign_key[1]]])
        unknown_table(fk) == fk.ref_table \notin tnames
        unknown_column(fk) ==
            fk.ref_column \notin
                {c.name : c \in Range(table_by_name(fk.ref_table).columns)}
        bad == SelectSeq(fks, LAMBDA fk : unknown_table(fk) \/ unknown_column(fk))
    IN  IF bad = <<>> THEN <<>>
        ELSE IF unknown_table(bad[1])
             THEN << Err("unknown_fk_table", bad[1].ref_table) >>
             ELSE << Err("unknown_fk_column", bad[1].ref_column) >>

\* Schema._validate_schema: runs once every table validated, raises at the
\* first violated rule
SchemaErrors(d) ==
    LET inner  == Concat([i \in 1..Len(d.tables) |-> TableErrors(d.tables[i])])
        tnames == [i \in 1..Len(d.tables) |-> d.tables[i].name]
    IN  IF inner # <<>> THEN inner
        ELSE IF d.tables = <<>> THEN << Err("no_tables", "schema") >>
        ELSE IF Len(tnames) # Cardinality(Range(tnames))
             THEN << Err("duplicate_tables", "schema") >>
        ELSE FkErrors(d)

\* Schema.dependency_edges: one (child, parent) pair per foreign-key column
dependency_edges(s) ==
    Concat([i \in 1..Len(s.tables) |->
              LET fks == foreign_keys(s.tables[i])
              IN  [j \in 1..Len(fks) |->
                     << s.tables[i].name, fks[j].foreign_key[1].ref_table >>]])

\* ------------------------------------------------------- input documents
TableNames == << "A", "B", "C", "D", "E" >>

IntPk == Column("id", "int", TRUE, NoFk, FALSE, FALSE)

StrPk == Column("id", "str", TRUE, NoFk, FALSE, FALSE)

FkName(j) == "f" \o ToString(j)

\* Resolver family: up to MaxTables tables named in declaration order, each
\* with an int primary key, and up to MaxFks foreign-key columns in all.
\* A foreign key may name a table the document does not declare.
EdgeLists(n) ==
    UNION { { e \in [1..k -> (1..n) \X (1..MaxTables)] :
                \A i \in 1..(k-1) : e[i][1] <= e[i+1][1] } : k \in 0..MaxFks }

ResolverDoc(n, e) ==
    Schema([i \in 1..n |->
        LET mine == SelectSeq(e, LAMBDA x : x[1] = i)
        IN  Table(TableNames[i],
                  << IntPk >> \o
                  [j \in 1..Len(mine) |->
                     Column(FkName(j), "int", FALSE,
                            Fk(TableNames[mine[j][2]], "id"), FALSE, FALSE)])])

ResolverDocs ==
    UNION { { ResolverDoc(n, e) : e \in EdgeLists(n) } : n \in 0..MaxTables }

\* Generation family: up to two tables, each with zero or one "id"
\* primary key (int or str) followed by at most one more column: a foreign
\* key, a bool column "val", a second primary key, or a column that breaks a
\* rule of the validators. A table takes its declaration-order name or the
\* first table's; a foreign key on the parent's "id" may be flagged nullable
\* and unique; a nullable or unique "val" is drawn in one-table documents
\* only; at most one table of a document has a str primary key.
GenTableNames == << "A", "B" >>

GenNames == Range(GenTableNames)

ExtraCols(n) ==
    { Column("ref", "int", FALSE, Fk(p, "id"), fl, fl) :
        p \in GenNames, fl \in BOOLEAN }
    \cup { Column("ref", "int", FALSE, Fk(p, "val"), FALSE, FALSE) : p \in GenNames }
    \cup { Column("val", "bool", FALSE, NoFk, nl, un) :
             nl \in { b \in BOOLEAN : b => n = 1 },
             un \in { b \in BOOLEAN : b => n = 1 } }
    \cup { Column("k2", "int", TRUE, NoFk, nl, FALSE) : nl \in BOOLEAN }
    \cup { Column("k2", "int", TRUE, Fk(GenTableNames[1], "id"), FALSE, FALSE),
           Column("id", "str", FALSE, NoFk, FALSE, FALSE) }

GenColumnLists(n) ==
    { pk \o ex : pk \in { <<>>, << IntPk >>, << StrPk >> },
                 ex \in { <<>> } \cup { << c >> : c \in ExtraCols(n) } }

StrKeys(d) ==
    Cardinality({ i \in 1..Len(d.tables) : StrPk \in Range(d.tables[i].columns) })

GenDocs ==
    UNION { { d \in { Schema([i \in 1..n |-> Table(nm[i], cl[i])]) :
                        nm \in { f \in [1..n -> GenNames] :
                                   \A i \in 1..n :
                                       f[i] \in { GenTableNames[i], GenTableNames[1] } },
                        cl \in [1..n -> GenColumnLists(n)] } :
                StrKeys(d) <= 1 } :
            n \in 0..Len(GenTableNames) }

\* ------------------------------------------------------------------ state
VARIABLES
    doc,             \* the schema document handed to Schema.model_validate
    rows_per_table,  \* the rows_per_table argument of the emitter
    pc,              \* where the caller stands
    error,           \* the exception raised, if any
    schema,          \* the validated Schema, <<>> before validation
    indeg, out,      \* _toposort_tables: indegrees and parent -> children
    q, ordered,      \* _toposort_tables: ready queue and result
    order,           \* TABLE_ORDER of the emitted script, <<>> before emission
    runs,            \* the executions of the emitted script the caller starts
    SCHEMA,          \* SCHEMA of the executions of the script, <<>> while unbound
    gen,             \* per execution: the locals of generate() and the files
    tape             \* per execution: seeded draws the other one has revealed

vars == << doc, rows_per_table, pc, error, schema, indeg, out, q, ordered, order,
           runs, SCHEMA, gen, tape >>

front == << doc, rows_per_table, pc, error, schema, indeg, out, q, ordered, order >>

back == << runs, SCHEMA, gen, tape >>

NoError == [kind |-> "none", rules |-> <<>>, tables |-> <<>>]

Raised(kind, rules, tables) == [kind |-> kind, rules |-> rules, tables |-> tables]

RowCounts == -1 .. MaxRows

Executions == {1, 2}

Idle ==
    [pc |-> "idle", error |-> "none", ti |-> 0, i |-> 0, ci |-> 0, row |-> <<>>,
     nullok |-> FALSE, attempts |-> 0, pk_values |-> <<>>, unique_tracker |-> <<>>,
     files |-> <<>>, entropy |-> <<>>]

InitWith(docs, rs) ==
    /\ runs = rs
    /\ SCHEMA = <<>>
    /\ gen = [r \in Executions |-> Idle]
    /\ tape = [r \in Executions |-> <<>>]
    /\ doc \in docs
    /\ rows_per_table \in RowCounts
    /\ pc = "start"
    /\ error = NoError
    /\ schema = <<>>
    /\ indeg = <<>>
    /\ out = <<>>
    /\ q = <<>>
    /\ ordered = <<>>
    /\ order = <<>>

Init == InitWith(GenDocs, {1})

InitResolver == InitWith(ResolverDocs, {1})

\* the documents of the generation family without a unique column
RepeatDocs ==
    { d \in GenDocs :
        \A i \in 1..Len(d.tables) : \A c \in Range(d.tables[i].columns) : ~ c.unique }

InitRepeat == InitWith(RepeatDocs, {1, 2})

\* --------------------------------------------------------------- frontend
\* Schema.model_validate(parsed) in generate_synth_data_script
Validate ==
    /\ pc = "start"
    /\ LET errs == SchemaErrors(doc)
       IN  IF errs = <<>>
           THEN /\ schema' = << doc >>
                /\ pc' = "validated"
                /\ error' = error
           ELSE /\ schema' = schema
                /\ pc' = "failed"
                /\ error' = Raised("validation", errs, <<>>)
    /\ UNCHANGED << doc, rows_per_table, indeg, out, q, ordered, order, back >>

tables_of(s) == [i \in 1..Len(s.tables) |-> s.tables[i].name]

\* EdgeStep that records the child and leaves its indegree alone
EdgeStep_NoIndegree(g, edge) ==
    LET child == edge[1]
        parent == edge[2]
    IN  IF g.self # <<>> THEN g
        ELSE IF child = parent THEN [g EXCEPT !.self = << child >>]
        ELSE IF parent \notin DOMAIN g.indeg \/ child \notin DOMAIN g.indeg THEN g
        ELSE [g EXCEPT !.out[parent] = @ \cup {child}]

\* EdgeStep without the self-reference check
EdgeStep_NoSelfCheck(g, edge) ==
    LET child == edge[1]
        parent == edge[2]
    IN  IF parent \notin DOMAIN g.indeg \/ child \notin DOMAIN g.indeg THEN g
        ELSE IF parent \notin g.out[parent]
             THEN [g EXCEPT !.out[parent] = @ \cup {child},
                            !.indeg[child] = @ + 1]
             ELSE g

\* one iteration of the edge loop of _toposort_tables; g.self names the
\* table of the self-referential edge that made the loop raise
EdgeStep(g, edge) ==
    LET child == edge[1]
        parent == edge[2]
    IN  IF g.self # <<>> THEN g
        ELSE IF child = parent THEN [g EXCEPT !.self = << child >>]
        ELSE IF parent \notin DOMAIN g.indeg \/ child \notin DOMAIN g.indeg THEN g
        ELSE IF parent \notin g.out[parent]
             THEN [g EXCEPT !.out[parent] = @ \cup {child},
                            !.indeg[child] = @ + 1]
             ELSE g

RECURSIVE BuildGraph(_, _)
BuildGraph(g, edges) ==
    IF edges = <<>> THEN g ELSE BuildGraph(EdgeStep(g, Head(edges)), Tail(edges))

\* ParamCheck that lets rows_per_table = 0 through
ParamCheck_NegativeOnly ==
    /\ pc = "validated"
    /\ IF rows_per_table < 0
       THEN /\ pc' = "failed"
            /\ error' = Raised("parameter", <<>>, <<>>)
       ELSE /\ pc' = "resolve"
            /\ error' = error
    /\ UNCHANGED << doc, rows_per_table, schema, indeg, out, q, ordered, order, back >>

\* the entry check of generate_faker_python_script
ParamCheck ==
    /\ pc = "validated"
    /\ IF rows_per_table <= 0
       THEN /\ pc' = "failed"
            /\ error' = Raised("parameter", <<>>, <<>>)
       ELSE /\ pc' = "resolve"
            /\ error' = error
    /\ UNCHANGED << doc, rows_per_table, schema, indeg, out, q, ordered, order, back >>

\* _toposort_tables up to the construction of the ready queue
ToposortBuild ==
    /\ pc = "resolve"
    /\ LET tables == tables_of(schema[1])
           g0 == [indeg |-> [t \in Range(tables) |-> 0],
                  out   |-> [t \in Range(tables) |-> {}],
                  self  |-> <<>>]
           g  == BuildGraph(g0, dependency_edges(schema[1]))
       IN  IF g.self # <<>>
           THEN /\ pc' = "failed"
                /\ error' = Raised("self_reference", <<>>, g.self)
                /\ UNCHANGED << indeg, out, q >>
           ELSE /\ pc' = "kahn"
                /\ error' = error
                /\ indeg' = g.indeg
                /\ out' = g.out
                /\ q' = SelectSeq(tables, LAMBDA t : g.indeg[t] = 0)
    /\ UNCHANGED << doc, rows_per_table, schema, ordered, order, back >>

\* the orders in which a set can be iterated
Iterations(S) == { s \in [1..Cardinality(S) -> S] : NoDup(s) }

\* one iteration of the while loop of _toposort_tables
ToposortPop ==
    /\ pc = "kahn"
    /\ q # <<>>
    /\ \E children \in Iterations(out[Head(q)]) :
         LET t == Head(q)
             dec == [c \in DOMAIN indeg |-> IF c \in out[t] THEN indeg[c] - 1 ELSE indeg[c]]
         IN  /\ ordered' = Append(ordered, t)
             /\ indeg' = dec
             /\ q' = Tail(q) \o SelectSeq(children, LAMBDA c : dec[c] = 0)
    /\ UNCHANGED << doc, rows_per_table, pc, error, schema, out, order, back >>

\* ToposortFinish whose error names every table of the schema
ToposortFinish_NamesAll ==
    /\ pc = "kahn"
    /\ q = <<>>
    /\ LET tables == tables_of(schema[1])
       IN  IF Len(ordered) # Len(tables)
           THEN /\ pc' = "failed"
                /\ error' = Raised("cyclic", <<>>, tables)
                /\ order' = order
           ELSE /\ pc' = "emitted"
                /\ error' = error
                /\ order' = ordered
    /\ UNCHANGED << doc, rows_per_table, schema, indeg, out, q, ordered, back >>

\* the end of _toposort_tables and the emission of the script
ToposortFinish ==
    /\ pc = "kahn"
    /\ q = <<>>
    /\ LET tables == tables_of(schema[1])
       IN  IF Len(ordered) # Len(tables)
           THEN /\ pc' = "failed"
                /\ error' = Raised("cyclic", <<>>,
                                   SelectSeq(tables, LAMBDA t : t \notin Range(ordered)))
                /\ order' = order
           ELSE /\ pc' = "emitted"
                /\ error' = error
                /\ order' = ordered
    /\ UNCHANGED << doc, rows_per_table, schema, indeg, out, q, ordered, back >>

\* ------------------------------------- the schema as the script carries it
\* json.dumps writes True, False and None as the bare words true, false and
\* null, and a str as a quoted string
JsonWord(w) == [json |-> "word", text |-> w]

JsonString(x) == [json |-> "string", text |-> x]

JsonBool(b) == JsonWord(IF b THEN "true" ELSE "false")

IsWord(x) == "json" \in DOMAIN x /\ x.json = "word"

json_dumps_column(c) ==
    [name |-> JsonString(c.name), type |-> JsonString(c.type),
     primary_key |-> JsonBool(c.primary_key),
     foreign_key |->
        IF c.foreign_key = NoFk THEN JsonWord("null")
        ELSE [ref_table |-> JsonString(c.foreign_key[1].ref_table),
              ref_column |-> JsonString(c.foreign_key[1].ref_column)],
     nullable |-> JsonBool(c.nullable), unique |-> JsonBool(c.unique)]

\* json.dumps(schema.model_dump(mode="json"), ...): every field of every
\* column is written, the flags that keep their default included
json_dumps(s) ==
    [tables |-> [i \in 1..Len(s.tables) |->
        [name |-> JsonString(s.tables[i].name),
         columns |-> [j \in 1..Len(s.tables[i].columns) |->
                        json_dumps_column(s.tables[i].columns[j])]]]]

\* the text after "SCHEMA = " in the emitted script
schema_json_str == json_dumps(schema[1])

\* the names Python binds without an import
PyBuiltins == {"True", "False", "None"}

\* the bare words of the text, which Python reads as names
Names(text) ==
    UNION { UNION { LET c == text.tables[i].columns[j]
                    IN  {c.primary_key.text, c.nullable.text, c.unique.text}
                        \cup (IF IsWord(c.foreign_key)
                              THEN {c.foreign_key.text} ELSE {}) :
                    j \in 1..Len(text.tables[i].columns) } :
            i \in 1..Len(text.tables) }

\* the names of the text that raise NameError when the module body of the
\* script evaluates the text as a Python expression
UnboundNames(text) == Names(text) \ PyBuiltins

json_loads_column(c) ==
    Column(c.name.text, c.type.text, c.primary_key.text = "true",
           IF IsWord(c.foreign_key) THEN NoFk
           ELSE Fk(c.foreign_key.ref_table.text, c.foreign_key.ref_column.text),
           c.nullable.text = "true", c.unique.text = "true")

\* json.loads of the text, the reading the unit test applies to it
json_loads(text) ==
    Schema([i \in 1..Len(text.tables) |->
        Table(text.tables[i].name.text,
              [j \in 1..Len(text.tables[i].columns) |->
                 json_loads_column(text.tables[i].columns[j])])])

\* ------------------------------------------------- the emitted script
\* attempts of the uniqueness loop of _generate_scalar
MaxAttempts == 1000

\* outcomes of a draw from the seeded sources (random, Faker)
Draws == {0, 1}

\* outcomes of uuid.uuid4(), which reads the operating system's entropy
Uuids == {"u1", "u2"}

Put(f, k, v) == [x \in DOMAIN f \cup {k} |-> IF x = k THEN v ELSE f[x]]

Get(f, k, default) == IF k \in DOMAIN f THEN f[k] ELSE default

\* tables_by_name of generate(): a later table of the same name wins
tables_by_name(n) ==
    LET ts == SCHEMA[1].tables
    IN  ts[CHOOSE i \in 1..Len(ts) :
              ts[i].name = n /\ \A j \in (i+1)..Len(ts) : ts[j].name # n]

\* _infer_provider on the column names of the input documents
_infer_provider(n) == IF n = "id" THEN << "uuid4" >> ELSE <<>>

\* gen() of _generate_scalar, as the text csv writes, from one seeded draw
gen_value(col, d) ==
    IF _infer_provider(col.name) # <<>> THEN "p" \o ToString(d)
    ELSE IF col.type = "int" THEN ToString(d + 1)
    ELSE IF col.type = "bool" THEN (IF d % 2 = 1 THEN "True" ELSE "False")
    ELSE "w" \o ToString(d)

\* what the calls of uuid.uuid4() in _pk_generator can return: no call for
\* an int column, one call otherwise
UuidCalls(col) == IF col.type = "int" THEN { <<>> } ELSE { << u >> : u \in Uuids }

\* _pk_generator that numbers int keys from 0
_pk_generator_ZeroBased(col, row_idx, u) ==
    IF col.type = "int" THEN ToString(row_idx) ELSE u[1]

\* _pk_generator, as the text csv writes; u holds what uuid.uuid4() returned
_pk_generator(col, row_idx, u) ==
    IF col.type = "int" THEN ToString(row_idx + 1) ELSE u[1]

Other(r) == 3 - r

Finished(r) == r \notin runs \/ gen[r].pc \in {"done", "failed"}

\* The executions share nothing but the seed. They are interleaved so that
\* the second follows the first draw for draw.
MayStep(r) ==
    /\ r \in runs
    /\ pc = "emitted"
    /\ tape[Other(r)] = <<>> \/ Finished(Other(r))
    /\ r = 2 => (tape[2] # <<>> \/ Finished(1))

\* execution r takes d as its next seeded draw: the value the other
\* execution found at this position of the stream, if it has been there
Draw(r, d) ==
    IF tape[r] # <<>>
    THEN /\ d = Head(tape[r])
         /\ tape' = [tape EXCEPT ![r] = Tail(@)]
    ELSE tape' = [tape EXCEPT ![Other(r)] =
                     IF Finished(Other(r)) THEN @ ELSE Append(@, d)]

CurTable(r) == tables_by_name(order[gen[r].ti])

CurCol(r) == CurTable(r).columns[gen[r].ci]

InCell(r) ==
    /\ MayStep(r)
    /\ gen[r].pc = "cell"
    /\ gen[r].ci <= Len(CurTable(r).columns)

\* the cell is written and the column loop moves on
WithCell(g, v) ==
    [g EXCEPT !.row = Append(@, v), !.ci = @ + 1, !.nullok = FALSE, !.attempts = 0]

\* Fail that notes the error and lets the loops go on
Fail_GoesOn(g, kind) == [g EXCEPT !.error = kind]

\* raise RuntimeError(...): nothing catches it, the execution ends
Fail(g, kind) == [g EXCEPT !.pc = "failed", !.error = kind]

\* the script run as a program: the module body evaluates the text after
\* "SCHEMA = " as a Python expression, then the __main__ guard calls generate()
RunScript(r) ==
    /\ MayStep(r)
    /\ gen[r].pc = "idle"
    /\ IF UnboundNames(schema_json_str) # {}
       THEN /\ gen' = [gen EXCEPT ![r] = Fail(Idle, "name_error")]
            /\ SCHEMA' = SCHEMA
       ELSE /\ gen' = [gen EXCEPT ![r] = [Idle EXCEPT !.pc = "table", !.ti = 1]]
            /\ SCHEMA' = << json_loads(schema_json_str) >>
    /\ UNCHANGED << front, runs, tape >>

\* generate() up to the table loop, entered with SCHEMA and TABLE_ORDER bound
\* to the schema and the order the text of the script denotes
GenStart(r) ==
    /\ MayStep(r)
    /\ gen[r].pc = "idle"
    /\ gen' = [gen EXCEPT ![r] = [Idle EXCEPT !.pc = "table", !.ti = 1]]
    /\ SCHEMA' = << json_loads(schema_json_str) >>
    /\ UNCHANGED << front, runs, tape >>

\* GenTable that walks the tables in the order the schema declares them
GenTable_DeclarationOrder(r) ==
    /\ MayStep(r)
    /\ gen[r].pc = "table"
    /\ LET g == gen[r]
       IN  IF g.ti > Len(order)
           THEN gen' = [gen EXCEPT ![r].pc = "done"]
           ELSE LET name == tables_of(SCHEMA[1])[g.ti]
                    pk_cols == primary_keys(tables_by_name(name))
                IN  IF Len(pk_cols) # 1
                    THEN gen' = [gen EXCEPT ![r] = Fail(g, "unsupported_key")]
                    ELSE gen' = [gen EXCEPT ![r] =
                           [g EXCEPT
                              !.files = Put(@, name, <<>>),
                              !.unique_tracker =
                                  IF name \in DOMAIN @ THEN @ ELSE Put(@, name, <<>>),
                              !.pk_values =
                                  IF name \in DOMAIN @ THEN @ ELSE Put(@, name, <<>>),
                              !.pc = IF rows_per_table > 0 THEN "cell" ELSE "table",
                              !.ti = IF rows_per_table > 0 THEN @ ELSE @ + 1,
                              !.i = 0, !.ci = 1, !.row = <<>>]]
    /\ UNCHANGED << front, runs, SCHEMA, tape >>

\* GenTable that takes the first primary key of a table that has several
GenTable_FirstKeyOfSeveral(r) ==
    /\ MayStep(r)
    /\ gen[r].pc = "table"
    /\ LET g == gen[r]
       IN  IF g.ti > Len(order)
           THEN gen' = [gen EXCEPT ![r].pc = "done"]
           ELSE LET name == order[g.ti]
                    pk_cols == primary_keys(tables_by_name(name))
                IN  IF Len(pk_cols) = 0
                    THEN gen' = [gen EXCEPT ![r] = Fail(g, "unsupported_key")]
                    ELSE gen' = [gen EXCEPT ![r] =
                           [g EXCEPT
                              !.files = Put(@, name, <<>>),
                              !.unique_tracker =
                                  IF name \in DOMAIN @ THEN @ ELSE Put(@, name, <<>>),
                              !.pk_values =
                                  IF name \in DOMAIN @ THEN @ ELSE Put(@, name, <<>>),
                              !.pc = IF rows_per_table > 0 THEN "cell" ELSE "table",
                              !.ti = IF rows_per_table > 0 THEN @ ELSE @ + 1,
                              !.i = 0, !.ci = 1, !.row = <<>>]]
    /\ UNCHANGED << front, runs, SCHEMA, tape >>

\* the head of the table loop: the primary-key check, the file, the pool
GenTable(r) ==
    /\ MayStep(r)
    /\ gen[r].pc = "table"
    /\ LET g == gen[r]
       IN  IF g.ti > Len(order)
           THEN gen' = [gen EXCEPT ![r].pc = "done"]
           ELSE LET name == order[g.ti]
                    pk_cols == primary_keys(tables_by_name(name))
                IN  IF Len(pk_cols) # 1
                    THEN gen' = [gen EXCEPT ![r] = Fail(g, "unsupported_key")]
                    ELSE gen' = [gen EXCEPT ![r] =
                           [g EXCEPT
                              !.files = Put(@, name, <<>>),
                              !.unique_tracker =
                                  IF name \in DOMAIN @ THEN @ ELSE Put(@, name, <<>>),
                              !.pk_values =
                                  IF name \in DOMAIN @ THEN @ ELSE Put(@, name, <<>>),
                              !.pc = IF rows_per_table > 0 THEN "cell" ELSE "table",
                              !.ti = IF rows_per_table > 0 THEN @ ELSE @ + 1,
                              !.i = 0, !.ci = 1, !.row = <<>>]]
    /\ UNCHANGED << front, runs, SCHEMA, tape >>

\* a primary-key cell
CellPk(r) ==
    /\ InCell(r)
    /\ CurCol(r).primary_key
    /\ \E u \in UuidCalls(CurCol(r)) :
         gen' = [gen EXCEPT ![r] =
                   WithCell([@ EXCEPT !.entropy = @ \o u],
                            _pk_generator(CurCol(r), gen[r].i, u))]
    /\ UNCHANGED << front, runs, SCHEMA, tape >>

\* CellFk that samples the pool of the table being written
CellFk_OwnPool(r) ==
    /\ InCell(r)
    /\ ~ CurCol(r).primary_key
    /\ CurCol(r).foreign_key # NoFk
    /\ LET candidates == Get(gen[r].pk_values, CurTable(r).name, <<>>)
       IN  IF candidates = <<>>
           THEN /\ gen' = [gen EXCEPT ![r] = Fail(@, "missing_parent_rows")]
                /\ tape' = tape
           ELSE \E d \in Draws :
                  /\ Draw(r, d)
                  /\ gen' = [gen EXCEPT ![r] =
                               WithCell(@, candidates[(d % Len(candidates)) + 1])]
    /\ UNCHANGED << front, runs, SCHEMA >>

\* a foreign-key cell
CellFk(r) ==
    /\ InCell(r)
    /\ ~ CurCol(r).primary_key
    /\ CurCol(r).foreign_key # NoFk
    /\ LET parent_table == CurCol(r).foreign_key[1].ref_table
           candidates == Get(gen[r].pk_values, parent_table, <<>>)
       IN  IF candidates = <<>>
           THEN /\ gen' = [gen EXCEPT ![r] = Fail(@, "missing_parent_rows")]
                /\ tape' = tape
           ELSE \E d \in Draws :
                  /\ Draw(r, d)
                  /\ gen' = [gen EXCEPT ![r] =
                               WithCell(@, candidates[(d % Len(candidates)) + 1])]
    /\ UNCHANGED << front, runs, SCHEMA >>

\* CellNull that takes the nullability decision for foreign keys too
CellNull_ForeignKeysToo(r) ==
    /\ InCell(r)
    /\ ~ CurCol(r).primary_key
    /\ CurCol(r).nullable
    /\ ~ gen[r].nullok
    /\ \E d \in Draws :
         /\ Draw(r, d)
         /\ gen' = [gen EXCEPT ![r] =
                      IF d = 0 THEN WithCell(@, "") ELSE [@ EXCEPT !.nullok = TRUE]]
    /\ UNCHANGED << front, runs, SCHEMA >>

\* the nullability decision of a nullable cell that is no key
CellNull(r) ==
    /\ InCell(r)
    /\ ~ CurCol(r).primary_key
    /\ CurCol(r).foreign_key = NoFk
    /\ CurCol(r).nullable
    /\ ~ gen[r].nullok
    /\ \E d \in Draws :
         /\ Draw(r, d)
         /\ gen' = [gen EXCEPT ![r] =
                      IF d = 0 THEN WithCell(@, "") ELSE [@ EXCEPT !.nullok = TRUE]]
    /\ UNCHANGED << front, runs, SCHEMA >>

\* CellScalar whose uniqueness loop does not count its attempts
CellScalar_RetriesForever(r) ==
    /\ InCell(r)
    /\ ~ CurCol(r).primary_key
    /\ CurCol(r).foreign_key = NoFk
    /\ ~ CurCol(r).nullable \/ gen[r].nullok
    /\ \E d \in Draws :
         LET g == gen[r]
             col == CurCol(r)
             tname == CurTable(r).name
             v == gen_value(col, d)
             seen == Get(g.unique_tracker[tname], col.name, {})
         IN  /\ Draw(r, d)
             /\ gen' = [gen EXCEPT ![r] =
                   IF ~ col.unique THEN WithCell(g, v)
                   ELSE IF v \notin seen
                        THEN WithCell([g EXCEPT !.unique_tracker[tname] =
                                           Put(@, col.name, seen \cup {v})], v)
                   ELSE [g EXCEPT !.unique_tracker[tname] = Put(@, col.name, seen)]]
    /\ UNCHANGED << front, runs, SCHEMA >>

\* _generate_scalar: the one call of gen(), or one attempt of the
\* uniqueness loop
CellScalar(r) ==
    /\ InCell(r)
    /\ ~ CurCol(r).primary_key
    /\ CurCol(r).foreign_key = NoFk
    /\ ~ CurCol(r).nullable \/ gen[r].nullok
    /\ \E d \in Draws :
         LET g == gen[r]
             col == CurCol(r)
             tname == CurTable(r).name
             v == gen_value(col, d)
             seen == Get(g.unique_tracker[tname], col.name, {})
         IN  /\ Draw(r, d)
             /\ gen' = [gen EXCEPT ![r] =
                   IF ~ col.unique THEN WithCell(g, v)
                   ELSE IF v \notin seen
                        THEN WithCell([g EXCEPT !.unique_tracker[tname] =
                                           Put(@, col.name, seen \cup {v})], v)
                   ELSE IF g.attempts + 1 = MaxAttempts
                        THEN Fail([g EXCEPT !.unique_tracker[tname] =
                                       Put(@, col.name, seen)],
                                  "uniqueness_exhausted")
                   ELSE [g EXCEPT !.attempts = @ + 1,
                                  !.unique_tracker[tname] = Put(@, col.name, seen)]]
    /\ UNCHANGED << front, runs, SCHEMA >>

\* WriteRow that pools the row number in place of the row's primary key
WriteRow_PoolsRowNumber(r) ==
    /\ MayStep(r)
    /\ gen[r].pc = "cell"
    /\ gen[r].ci > Len(CurTable(r).columns)
    /\ LET g == gen[r]
           table == CurTable(r)
           last == g.i + 1 >= rows_per_table
       IN  gen' = [gen EXCEPT ![r] =
                     [g EXCEPT
                        !.files[table.name] = Append(@, g.row),
                        !.pk_values[table.name] = Append(@, ToString(g.i + 1)),
                        !.i = @ + 1, !.ci = 1, !.row = <<>>,
                        !.pc = IF last THEN "table" ELSE "cell",
                        !.ti = IF last THEN @ + 1 ELSE @]]
    /\ UNCHANGED << front, runs, SCHEMA, tape >>

\* writer.writerow(row), the pool, and the step of the row and table loops
WriteRow(r) ==
    /\ MayStep(r)
    /\ gen[r].pc = "cell"
    /\ gen[r].ci > Len(CurTable(r).columns)
    /\ LET g == gen[r]
           table == CurTable(r)
           names == [j \in 1..Len(table.columns) |-> table.columns[j].name]
           pk_col == primary_keys(table)[1]
           last == g.i + 1 >= rows_per_table
       IN  gen' = [gen EXCEPT ![r] =
                     [g EXCEPT
                        !.files[table.name] = Append(@, g.row),
                        !.pk_values[table.name] =
                            Append(@, g.row[IndexOf(names, pk_col.name)]),
                        !.i = @ + 1, !.ci = 1, !.row = <<>>,
                        !.pc = IF last THEN "table" ELSE "cell",
                        !.ti = IF last THEN @ + 1 ELSE @]]
    /\ UNCHANGED << front, runs, SCHEMA, tape >>

\* ------------------------------------------------------- specifications
NextResolver ==
    \/ Validate
    \/ ParamCheck
    \/ ToposortBuild
    \/ ToposortPop
    \/ ToposortFinish

NextGenerate ==
    \E r \in Executions :
        \/ RunScript(r)
        \/ GenStart(r)
        \/ GenTable(r)
        \/ CellPk(r)
        \/ CellFk(r)
        \/ CellNull(r)
        \/ CellScalar(r)
        \/ WriteRow(r)

Next == NextResolver \/ NextGenerate

\* validation, emission and one execution of the emitted script
Spec == Init /\ [][Next]_vars

\* validation and emission over the resolver family
SpecResolver == InitResolver /\ [][NextResolver]_vars

\* validation, emission and two executions of the one emitted script
SpecRepeat == InitRepeat /\ [][Next]_vars

\* Spec for a caller and a script that run on: both are sequential programs
\* without a suspension point, so a step that can be taken is taken
SpecFair == Init /\ [][Next]_vars /\ WF_vars(Next)

\* ------------------------------------------------------------ properties
Edges(s) == Range(dependency_edges(s))

Parents(s, x) == { e[2] : e \in { e \in Edges(s) : e[1] = x } }

HasSelfReference(s) == \E e \in Edges(s) : e[1] = e[2]

IsCycleABC(d) ==
    /\ tables_of(d) = << "A", "B", "C" >>
    /\ Edges(d) = { << "A", "B" >>, << "B", "C" >>, << "C", "A" >> }

PkIndex(t) == CHOOSE j \in 1..Len(t.columns) : t.columns[j].primary_key

FkColumns(t) ==
    { j \in 1..Len(t.columns) :
        t.columns[j].foreign_key # NoFk /\ ~ t.columns[j].primary_key }

ResolverUntouched ==
    indeg = <<>> /\ out = <<>> /\ q = <<>> /\ ordered = <<>> /\ order = <<>>

\* C1: whenever _toposort_tables returns an order, the order holds every
\* table name of the schema exactly once and puts the parent of every
\* foreign-key edge before its child.
C1_OrderIsTopologicalPermutation ==
    pc = "emitted" =>
        LET tables == tables_of(schema[1])
        IN  /\ Len(order) = Len(tables)
            /\ Range(order) = Range(tables)
            /\ NoDup(order)
            /\ \A e \in Edges(schema[1]) :
                   IndexOf(order, e[2]) < IndexOf(order, e[1])

\* an order was returned that differs from the declaration order, for a
\* schema with at least two foreign-key edges
C1_Witness ==
    /\ pc = "emitted"
    /\ order # tables_of(schema[1])
    /\ Cardinality(Edges(schema[1])) >= 2

\* C3: foreign keys of X into one parent Y count once: when the graph is
\* built the indegree of every table is the number of its distinct parents,
\* and a table whose parents are all ordered is in the ready queue or ordered.
C3_DuplicateFkCountsOnce ==
    pc = "kahn" =>
        /\ ordered = <<>> =>
              \A x \in DOMAIN indeg :
                  indeg[x] = Cardinality(Parents(schema[1], x))
        /\ \A x \in DOMAIN indeg :
              Parents(schema[1], x) \subseteq Range(ordered) =>
                  x \in Range(q) \cup Range(ordered)

\* C4: _toposort_tables returns an order only when it ordered every table;
\* otherwise it raises the cyclic-dependency error, which names exactly the
\* tables missing from the ordered result, and for the cycle A->B->C->A these
\* are A, B and C.
C4_CycleErrorNamesUnordered ==
    /\ pc = "emitted" => Len(ordered) = Len(tables_of(schema[1]))
    /\ error.kind = "cyclic" =>
          /\ pc = "failed"
          /\ order = <<>>
          /\ error.tables # <<>>
          /\ Range(error.tables) = Range(tables_of(schema[1])) \ Range(ordered)
    /\ (IsCycleABC(doc) /\ rows_per_table > 0 /\ pc \in {"emitted", "failed"}) =>
          /\ error.kind = "cyclic"
          /\ Range(error.tables) = {"A", "B", "C"}

\* the cyclic-dependency error was raised for the cycle A->B->C->A
C4_Witness == IsCycleABC(doc) /\ error.kind = "cyclic"

\* C5: for a schema with a foreign key whose ref_table is its own table,
\* _toposort_tables raises and never gets to the ready queue or to an order.
C5_SelfReferenceAlwaysRaises ==
    (schema # <<>> /\ HasSelfReference(schema[1])) =>
        /\ pc \notin {"kahn", "emitted"}
        /\ order = <<>>
        /\ (pc = "failed" /\ rows_per_table > 0) => error.kind = "self_reference"

\* the self-reference error was raised for a schema that has other tables
\* and other edges
C5_Witness ==
    /\ error.kind = "self_reference"
    /\ Len(schema[1].tables) >= 2
    /\ \E e \in Edges(schema[1]) : e[1] # e[2]

\* C10: with rows_per_table <= 0 the emitter raises the parameter error for
\* every schema, before any resolver work and without emitting a script.
C10_ParameterErrorFirst ==
    rows_per_table <= 0 =>
        /\ pc \in {"start", "validated", "failed"}
        /\ ResolverUntouched
        /\ (pc = "failed" /\ schema # <<>>) => error.kind = "parameter"
        /\ \A r \in Executions : gen[r] = Idle

\* the parameter error was raised for a schema the resolver would reject
C10_Witness ==
    /\ error.kind = "parameter"
    /\ IsCycleABC(doc) \/ HasSelfReference(schema[1])

WellFormed(d) ==
    /\ Len(d.tables) >= 1
    /\ \A i, j \in 1..Len(d.tables) : i # j => d.tables[i].name # d.tables[j].name
    /\ \A t \in Range(d.tables) : \A c \in Range(t.columns) :
           c.foreign_key # NoFk =>
               \E p \in Range(d.tables) :
                   /\ p.name = c.foreign_key[1].ref_table
                   /\ \E pc_ \in Range(p.columns) : pc_.name = c.foreign_key[1].ref_column

\* C8: an accepted Schema has a table, distinct table names and foreign keys
\* that name an existing table and an existing column of it; a document that
\* breaks one of these ends in a validation error and no Schema.
C8_AcceptedSchemasResolve ==
    /\ schema # <<>> => (schema[1] = doc /\ WellFormed(doc))
    /\ (~ WellFormed(doc) /\ pc # "start") =>
          (schema = <<>> /\ pc = "failed" /\ error.kind = "validation")

\* a two-table Schema was accepted whose foreign key names a column of the
\* parent that is not its primary key
C8_Witness ==
    /\ schema # <<>>
    /\ Len(schema[1].tables) = 2
    /\ \E t \in Range(schema[1].tables) : \E c \in Range(t.columns) :
           c.foreign_key # NoFk /\ c.foreign_key[1].ref_column = "val"

KeyDefect(d) ==
    \E t \in Range(d.tables) :
        \/ ~ \E c \in Range(t.columns) : c.primary_key
        \/ \E c \in Range(t.columns) :
               c.primary_key /\ (c.foreign_key # NoFk \/ c.nullable)

\* C9: a document with a table without primary key, or with a primary-key
\* column that is also a foreign key or is nullable, fails validation; the
\* resolver and generate() never run on it.
C9_KeyDefectsFailValidation ==
    KeyDefect(doc) =>
        /\ schema = <<>>
        /\ pc \in {"start", "failed"}
        /\ pc = "failed" => error.kind = "validation"
        /\ ResolverUntouched
        /\ \A r \in Executions : gen[r] = Idle

\* validation failed on a nullable primary key of a table that has another,
\* sound primary key
C9_Witness ==
    /\ pc = "failed"
    /\ error.kind = "validation"
    /\ \E i \in 1..Len(error.rules) : error.rules[i].rule = "pk_nullable"
    /\ \A t \in Range(doc.tables) : IntPk \in Range(t.columns) \/ StrPk \in Range(t.columns)

\* C2: every foreign-key value of a written row is the primary key of a row
\* already written to the parent table's file.
C2_ForeignKeysReferenceParentRows ==
    \A r \in runs : \A n \in DOMAIN gen[r].files :
        LET t == tables_by_name(n)
            f == gen[r].files
        IN  \A k \in 1..Len(f[n]) : \A j \in FkColumns(t) :
                LET p == t.columns[j].foreign_key[1].ref_table
                IN  /\ p \in DOMAIN f
                    /\ \E m \in 1..Len(f[p]) :
                           f[p][m][PkIndex(tables_by_name(p))] = f[n][k][j]

\* an execution finished with a child table whose two rows reference
\* different rows of a parent with a str primary key
C2_Witness ==
    /\ gen[1].pc = "done"
    /\ \E n \in DOMAIN gen[1].files :
         LET t == tables_by_name(n)
             f == gen[1].files[n]
         IN  /\ Len(f) = 2
             /\ \E j \in FkColumns(t) :
                    /\ f[1][j] # f[2][j]
                    /\ StrPk \in Range(tables_by_name(t.columns[j].foreign_key[1].ref_table).columns)

\* C6: two executions of the emitted script, with its one seed, schema,
\* table order and rows_per_table, write the same files.
C6_SameSeedSameOutput ==
    (gen[1].pc = "done" /\ gen[2].pc = "done") => gen[1].files = gen[2].files

\* the table loop of execution r has left table n behind
Generated(r, n) ==
    /\ n \in DOMAIN gen[r].files
    /\ gen[r].pc = "done" \/ gen[r].ti > IndexOf(order, n)

IntKeysAreRowNumbers(r) ==
    \A n \in DOMAIN gen[r].files :
        LET t == tables_by_name(n)
            f == gen[r].files[n]
        IN  /\ t.columns[PkIndex(t)].type = "int" =>
                  \A k \in 1..Len(f) : f[k][PkIndex(t)] = ToString(k)
            /\ Generated(r, n) => Len(f) = rows_per_table

OtherKeysAreDistinct(r) ==
    \A n \in DOMAIN gen[r].files :
        LET t == tables_by_name(n)
            f == gen[r].files[n]
        IN  t.columns[PkIndex(t)].type # "int" =>
                \A k, m \in 1..Len(f) : k # m => f[k][PkIndex(t)] # f[m][PkIndex(t)]

C11_GeneratesInTableOrder ==
    /\ pc = "emitted" => (schema = << doc >> /\ order = ordered)
    /\ SCHEMA # <<>> => SCHEMA = schema
    /\ \A r \in runs : gen[r].pc # "idle" =>
          LET g == gen[r]
              visited == { order[k] : k \in 1..(g.ti - 1) }
              current == IF g.pc \in {"cell", "failed"} THEN { order[g.ti] } ELSE {}
          IN  /\ pc = "emitted"
              /\ g.error # "name_error"
              /\ SCHEMA # <<>>
              /\ g.ti \in 1..(Len(order) + 1)
              /\ visited \subseteq DOMAIN g.files
              /\ DOMAIN g.files \subseteq visited \cup current
              /\ g.pc = "cell" => order[g.ti] \in DOMAIN g.files
              /\ g.pc = "done" =>
                    /\ g.ti = Len(order) + 1
                    /\ DOMAIN g.files = Range(tables_of(schema[1]))
                    /\ Cardinality(DOMAIN g.files) = Len(order)

SeveralKeys(t) == Len(primary_keys(t)) > 1

\* a document whose one departure from a single-key schema is a table with
\* several primary-key columns
SeveralKeysDoc(d) ==
    /\ WellFormed(d)
    /\ ~ KeyDefect(d)
    /\ \A t \in Range(d.tables) :
          NoDup([j \in 1..Len(t.columns) |-> t.columns[j].name])
    /\ \E t \in Range(d.tables) : SeveralKeys(t)

\* C12: a table with several primary-key columns passes validation, the
\* resolver and the emitter; generate() fails with the unsupported-key error
\* at that table, with no file, pool or row of it.
C12_SeveralKeysFailAtGeneration ==
    SeveralKeysDoc(doc) =>
        /\ error.kind # "validation"
        /\ pc # "start" => schema = << doc >>
        /\ (pc = "failed" /\ rows_per_table > 0) => HasSelfReference(doc)
        /\ \A r \in runs :
              LET g == gen[r]
              IN  /\ g.pc # "done"
                  /\ (g.pc = "failed" /\ g.ti > 0) => g.error = "unsupported_key"
                  /\ \A k \in 1..Len(order) :
                        (g.ti > 0 /\ SeveralKeys(tables_by_name(order[k]))) =>
                            /\ order[k] \notin DOMAIN g.files
                            /\ order[k] \notin DOMAIN g.pk_values
                            /\ g.ti <= k
                            /\ (g.ti = k /\ g.pc # "table") =>
                                   (g.pc = "failed" /\ g.row = <<>>)

\* the unsupported-key error was raised at the second table of TABLE_ORDER,
\* after the rows of the first were written
C12_Witness ==
    /\ gen[1].error = "unsupported_key"
    /\ gen[1].ti = 2
    /\ SeveralKeys(tables_by_name(order[2]))
    /\ Len(gen[1].files[order[1]]) = rows_per_table

\* C13: in every written file the non-empty values of a column marked unique
\* are pairwise distinct, no value takes more than 1000 attempts, and the
\* uniqueness-exhausted error is raised by the 1000th colliding attempt on a
\* column marked unique.
C13_UniqueColumnsDistinct ==
    \A r \in runs :
        /\ \A n \in DOMAIN gen[r].files :
              LET t == tables_by_name(n)
                  f == gen[r].files[n]
              IN  \A j \in 1..Len(t.columns) : t.columns[j].unique =>
                      \A k, m \in 1..Len(f) :
                          (k # m /\ f[k][j] # "") => f[k][j] # f[m][j]
        /\ gen[r].attempts < MaxAttempts
        /\ gen[r].error = "uniqueness_exhausted" =>
              (CurCol(r).unique /\ gen[r].attempts = MaxAttempts - 1)

\* the rest of the order when the ready queue is served first in, first out
\* and the children of a table are taken in the order of declaration
RECURSIVE FifoOrder(_, _, _, _)
FifoOrder(queue, ind, o, declared) ==
    IF queue = <<>> THEN <<>>
    ELSE LET t == Head(queue)
             dec == [c \in DOMAIN ind |-> IF c \in o[t] THEN ind[c] - 1 ELSE ind[c]]
             ready == SelectSeq(declared, LAMBDA c : c \in o[t] /\ dec[c] = 0)
         IN  << t >> \o FifoOrder(Tail(queue) \o ready, dec, o, declared)

\* C14: the order is a function of the schema: the ready queue starts with
\* the tables of indegree 0 in the order of declaration, and at every step
\* of the loop the tables ordered so far, followed by what a first-in-first-out
\* queue that takes children in the order of declaration adds to them, are
\* the one order that such a queue computes from the graph of the schema.
C14_OrderIsFunctionOfSchema ==
    pc \in {"kahn", "emitted"} =>
        LET tables == tables_of(schema[1])
            g0 == [indeg |-> [t \in Range(tables) |-> 0],
                   out   |-> [t \in Range(tables) |-> {}],
                   self  |-> <<>>]
            g  == BuildGraph(g0, dependency_edges(schema[1]))
            initial == SelectSeq(tables, LAMBDA t : g.indeg[t] = 0)
        IN  /\ ordered = <<>> => q = initial
            /\ ordered \o FifoOrder(q, indeg, out, tables)
                  = FifoOrder(initial, g.indeg, g.out, tables)

\* the rules of the data model that a document breaks, whatever the order
\* in which they are looked at
ViolatedRules(d) ==
    LET cols == UNION { Range(t.columns) : t \in Range(d.tables) }
        fks == { c.foreign_key[1] : c \in { c \in cols : c.foreign_key # NoFk } }
        named(n) == { t \in Range(d.tables) : t.name = n }
    IN  { r \in {"pk_and_fk", "pk_nullable", "no_columns", "duplicate_columns",
                 "no_primary_key", "no_tables", "duplicate_tables",
                 "unknown_fk_table", "unknown_fk_column"} :
            \/ r = "pk_and_fk" /\ \E c \in cols : c.primary_key /\ c.foreign_key # NoFk
            \/ r = "pk_nullable" /\ \E c \in cols : c.primary_key /\ c.nullable
            \/ r = "no_columns" /\ \E t \in Range(d.tables) : t.columns = <<>>
            \/ r = "duplicate_columns" /\ \E t \in Range(d.tables) :
                   ~ NoDup([j \in 1..Len(t.columns) |-> t.columns[j].name])
            \/ r = "no_primary_key" /\ \E t \in Range(d.tables) :
                   ~ \E c \in Range(t.columns) : c.primary_key
            \/ r = "no_tables" /\ d.tables = <<>>
            \/ r = "duplicate_tables" /\ ~ NoDup(tables_of(d))
            \/ r = "unknown_fk_table" /\ \E fk \in fks : named(fk.ref_table) = {}
            \/ r = "unknown_fk_column" /\ \E fk \in fks :
                   /\ named(fk.ref_table) # {}
                   /\ \A t \in named(fk.ref_table) : \A c \in Range(t.columns) :
                          c.name # fk.ref_column }

\* C15: a validation error names every rule of the data model that the
\* document breaks.
C15_ValidationErrorNamesEveryRule ==
    error.kind = "validation" =>
        { error.rules[i].rule : i \in 1..Len(error.rules) } = ViolatedRules(doc)

ParentsOf(t) == { t.columns[j].foreign_key[1].ref_table : j \in FkColumns(t) }

\* C16: from the moment the file of a table is open and its first row is
\* being built, the pool of each of its parents is that of a table the loop
\* has left behind, holds rows_per_table values, and is the same after every
\* later step of the execution.
C16_ParentsCompleteBeforeChildren ==
    [][ \A r \in runs : \A n \in DOMAIN gen[r].files :
          \A p \in ParentsOf(tables_by_name(n)) :
              /\ p \in DOMAIN gen[r].pk_values
              /\ Len(gen[r].pk_values[p]) = rows_per_table
              /\ IndexOf(order, p) < IndexOf(order, n)
              /\ IndexOf(order, p) < gen[r].ti
              /\ gen'[r].pk_values[p] = gen[r].pk_values[p] ]_vars

\* the second row of a child table is being built, after a first row that
\* references the parent's last key
C16_Witness ==
    /\ gen[1].pc = "cell"
    /\ gen[1].ti = 2
    /\ gen[1].i = 1
    /\ order[1] \in ParentsOf(CurTable(1))
    /\ \E j \in FkColumns(CurTable(1)) :
          gen[1].files[order[2]][1][j] = gen[1].pk_values[order[1]][rows_per_table]

\* C17: over a validated schema, a resolver-computed TABLE_ORDER and
\* rows_per_table > 0, the pool of the parent holds a value whenever a
\* foreign-key cell is to be sampled, and no execution ends in the
\* missing-parent-rows error; an execution in that error would have stopped
\* with the row unwritten.
C17_ParentPoolNeverEmpty ==
    \A r \in runs :
        /\ gen[r].error # "missing_parent_rows"
        /\ (gen[r].pc = "cell" /\ gen[r].ci <= Len(CurTable(r).columns)
              /\ ~ CurCol(r).primary_key /\ CurCol(r).foreign_key # NoFk) =>
               /\ rows_per_table > 0
               /\ CurCol(r).foreign_key[1].ref_table \in DOMAIN gen[r].pk_values
               /\ gen[r].pk_values[CurCol(r).foreign_key[1].ref_table] # <<>>

\* a foreign-key cell of the first row of a child is to be sampled from a
\* pool that holds one value
C17_Witness ==
    /\ gen[1].pc = "cell"
    /\ gen[1].i = 0
    /\ gen[1].ci <= Len(CurTable(1).columns)
    /\ ~ CurCol(1).primary_key
    /\ CurCol(1).foreign_key # NoFk
    /\ Len(Get(gen[1].pk_values, CurCol(1).foreign_key[1].ref_table, <<>>)) = 1

\* the foreign-key graph of s has a self-reference or a directed cycle
HasCycle(s) ==
    LET names == Range(tables_of(s))
    IN  \E k \in 1..Cardinality(names) : \E f \in [1..k -> names] :
            /\ \A i \in 1..(k - 1) : << f[i], f[i + 1] >> \in Edges(s)
            /\ << f[k], f[1] >> \in Edges(s)

\* C18: _toposort_tables raises only for a schema whose foreign-key graph has
\* a self-reference or a directed cycle; for every other validated schema,
\* with several foreign keys between two tables or not, it returns an order.
C18_RaisesOnlyOnRealCycles ==
    /\ error.kind \in {"cyclic", "self_reference"} => HasCycle(schema[1])
    /\ (schema # <<>> /\ ~ HasCycle(schema[1]) /\ pc = "kahn" /\ q = <<>>) =>
          Len(ordered) = Len(schema[1].tables)

GenerationErrors == {"missing_parent_rows", "unsupported_key", "uniqueness_exhausted"}

\* a step of execution r
ExecutionStep(r) ==
    \/ RunScript(r) \/ GenStart(r) \/ GenTable(r) \/ CellPk(r)
    \/ CellFk(r) \/ CellNull(r) \/ CellScalar(r) \/ WriteRow(r)

\* C19: an execution in a generation error has stopped for good and is not
\* done; the row it was building is in no file and its key in no pool, the
\* failing table holds the rows written before that row only, and no table
\* after the failing one has a file or a pool.
C19_GenerationErrorsAbort ==
    \A r \in runs : gen[r].error \in GenerationErrors =>
        LET g == gen[r]
        IN  /\ g.pc = "failed"
            /\ ~ ENABLED ExecutionStep(r)
            /\ \A n \in DOMAIN g.files :
                  /\ Len(g.files[n]) = Len(g.pk_values[n])
                  /\ g.row \notin Range(g.files[n]) \/ g.row = <<>>
            /\ g.error = "unsupported_key" => order[g.ti] \notin DOMAIN g.files
            /\ g.error # "unsupported_key" =>
                  /\ Len(g.files[order[g.ti]]) = g.i
                  /\ g.i < rows_per_table
            /\ \A k \in (g.ti + 1)..Len(order) :
                  order[k] \notin DOMAIN g.files \cup DOMAIN g.pk_values

\* the uniqueness-exhausted error stopped the third row of a table after its
\* primary-key cell, with two rows written
C19_Witness ==
    /\ gen[1].error = "uniqueness_exhausted"
    /\ gen[1].i = 2
    /\ Len(gen[1].row) = 1
    /\ Len(gen[1].files[order[1]]) = 2

\* the cells of column j of table t that execution r has written or has
\* in the row it is building
CellsOf(r, t, j) ==
    { gen[r].files[t.name][k][j] : k \in 1..Len(gen[r].files[t.name]) }
    \cup (IF gen[r].pc \in {"cell", "failed"} /\ gen[r].ti \in 1..Len(order)
             /\ order[gen[r].ti] = t.name /\ j <= Len(gen[r].row)
          THEN { gen[r].row[j] } ELSE {})

\* C20: the empty value is found in columns that are nullable and neither
\* primary key nor foreign key, and nowhere else; the step that writes it is
\* the first step on its cell, before any synthesis, and it leaves the
\* uniqueness tracker as it was.
C20_EmptyOnlyForNullableNonKeys ==
    /\ [](\A r \in runs : \A n \in DOMAIN gen[r].files :
            LET t == tables_by_name(n)
            IN  \A j \in 1..Len(t.columns) :
                    "" \in CellsOf(r, t, j) =>
                        /\ t.columns[j].nullable
                        /\ ~ t.columns[j].primary_key
                        /\ t.columns[j].foreign_key = NoFk)
    /\ [][ \A r \in runs :
             (/\ Len(gen'[r].row) = Len(gen[r].row) + 1
              /\ gen'[r].row[Len(gen'[r].row)] = "") =>
                 /\ gen'[r].unique_tracker = gen[r].unique_tracker
                 /\ gen[r].attempts = 0
                 /\ ~ gen[r].nullok ]_vars

\* three rows of a table with a nullable unique column were written, two of
\* them with the empty value, and the tracker holds the one value synthesized
C20_Witness ==
    /\ gen[1].pc = "done"
    /\ \E n \in DOMAIN gen[1].files :
          LET t == tables_by_name(n)
              f == gen[1].files[n]
          IN  /\ Len(f) = 3
              /\ \E j \in 1..Len(t.columns) :
                    /\ t.columns[j].unique
                    /\ Cardinality({ k \in 1..3 : f[k][j] = "" }) = 2
                    /\ Cardinality(gen[1].unique_tracker[n][t.columns[j].name]) = 1

\* the caller has its exception, or every execution it started has ended
Stopped ==
    \/ pc = "failed"
    \/ pc = "emitted" /\ \A r \in runs : gen[r].pc \in {"done", "failed"}

\* C21: every run stops: each execution ends done, with rows_per_table rows
\* in the file of every table of TABLE_ORDER, or in a fatal error; a step that
\* leaves the table, row and column where they are is the nullability
\* decision or one attempt of the uniqueness loop on a unique column, and no
\* value is given more than 1000 attempts.
C21_EveryRunTerminates ==
    /\ <> Stopped
    /\ [](\A r \in runs :
            /\ gen[r].attempts < MaxAttempts
            /\ gen[r].pc = "done" =>
                  /\ DOMAIN gen[r].files = Range(order)
                  /\ \A n \in DOMAIN gen[r].files :
                        Len(gen[r].files[n]) = rows_per_table)
    /\ [][ \A r \in runs :
             (/\ gen'[r] # gen[r]
              /\ gen'[r].pc = gen[r].pc
              /\ << gen'[r].ti, gen'[r].i, gen'[r].ci >>
                    = << gen[r].ti, gen[r].i, gen[r].ci >>) =>
                 \/ ~ gen[r].nullok /\ gen'[r].nullok
                                    /\ gen'[r].attempts = gen[r].attempts
                 \/ /\ CurCol(r).unique
                    /\ gen'[r].attempts = gen[r].attempts + 1 ]_vars

\* an execution is done with three rows in each of two files
C21_Witness ==
    /\ gen[1].pc = "done"
    /\ rows_per_table = 3
    /\ Len(order) = 2
    /\ \A n \in DOMAIN gen[1].files : Len(gen[1].files[n]) = 3

\* C22: every foreign-key value of a written row is a value that the column
\* the foreign key names, ref_table.ref_column, holds in a row written to the
\* parent table's file.
C22_ForeignKeysReferenceNamedColumn ==
    \A r \in runs : \A n \in DOMAIN gen[r].files :
        LET t == tables_by_name(n)
            f == gen[r].files
        IN  \A k \in 1..Len(f[n]) : \A j \in FkColumns(t) :
                LET fk == t.columns[j].foreign_key[1]
                    p == tables_by_name(fk.ref_table)
                    names == [c \in 1..Len(p.columns) |-> p.columns[c].name]
                IN  /\ fk.ref_table \in DOMAIN f
                    /\ \E m \in 1..Len(f[fk.ref_table]) :
                           f[fk.ref_table][m][IndexOf(names, fk.ref_column)] = f[n][k][j]

====
